---- MODULE Spec2Model ----
(***************************************************************************)
(* A model of the apploc command line tool (src/src/cli.js): the config    *)
(* locator findConfig, the update command (read config, fetch, transform,  *)
(* compare/write, catch), the init command and the exit code.              *)
(*                                                                         *)
(* Conventions.  A path is a sequence of segments, the root directory is   *)
(* the empty sequence.  A text (the content of a file) is a sequence of    *)
(* tokens.  A JavaScript object is an ordered list of properties (records  *)
(* name/val) in insertion order, looked up through its prototype chain as  *)
(* the language does.  The module is an ES module (it uses import/export), *)
(* so its code runs in strict mode.                                        *)
(***************************************************************************)
EXTENDS Integers, Sequences, FiniteSets, TLC

VARIABLES
    command,        \* options.command (Undefined when argv holds no command)
    cwd,            \* process.cwd()
    files,          \* the file system: path -> [readable, text]
    writable,       \* whether fs.writeFileSync succeeds in this environment
    remote,         \* what the API answers to the GET of this run
    pc,             \* position of cli() in its body
    outcome,        \* "running", "returned" or "rejected" (the promise of cli)
    configPath,     \* const configPath (lines 122 and 149)
    config,         \* const config (line 167)
    response,       \* const response (line 171)
    localizations,  \* let localizations (line 190), with Object.prototype
    newJson,        \* const newJson (line 202)
    error,          \* the value caught at line 217
    spinner,        \* let spinner (line 164)
    stdout,         \* lines written by console.log
    stderr,         \* lines written by console.error
    exitCode,       \* process.exitCode (0 while unset)
    events,         \* the I/O operations of this run, in order
    walked,         \* the directories findConfig tested, in order
    files0,         \* the file system when this run started
    run,            \* number of this run (each run is a new process)
    prevOk,         \* the previous run was an update that completed
    sameRemote      \* the API answers this run as it answered the previous one

vars == << command, cwd, files, writable, remote, pc, outcome, configPath,
           config, response, localizations, newJson, error, spinner, stdout,
           stderr, exitCode, events, walked, files0, run, prevOk, sameRemote >>

(***************************************************************************)
(* Bounds of the model.                                                    *)
(***************************************************************************)
MaxDepth == 2       \* depth of the directory trees findConfig is run on
MaxKeys == 2        \* key records in a remote keys list
MaxLocs == 2        \* localizations in one key record
MaxRuns == 2        \* consecutive runs of the tool

Names == {"a", "b"}                     \* directory names
Undefined == "<undefined>"              \* the JavaScript value undefined
Null == << >>                           \* findConfig's null (no file has the empty path)

configFileName == "apploc.config.json"

(***************************************************************************)
(* path.join(dir, name), path.dirname(dir), fs.existsSync(path).           *)
(***************************************************************************)
join(dir, name) == Append(dir, name)

dirname(dir) == IF Len(dir) = 0 THEN dir ELSE SubSeq(dir, 1, Len(dir) - 1)

existsSync(path) == path \in DOMAIN files

(***************************************************************************)
(* findConfig (lines 75-95).  findLoop is one pass of the while loop at    *)
(* currentDir; visited collects the directories whose config path was      *)
(* tested.                                                                 *)
(***************************************************************************)
RECURSIVE findLoop(_, _)
findLoop(currentDir, visited) ==
    LET path == join(currentDir, configFileName)
        seen == Append(visited, currentDir)
        parentDir == dirname(currentDir)
    IN  IF existsSync(path) THEN [path |-> path, visited |-> seen]
        ELSE IF currentDir = parentDir THEN [path |-> Null, visited |-> seen]
        ELSE findLoop(parentDir, seen)

\* A walk that gives up at the root without looking into it.
findConfigNoRoot(startDir) ==
    LET r == findLoop(startDir, << >>)
    IN  IF r.path = << configFileName >> THEN [r EXCEPT !.path = Null] ELSE r

findConfig(startDir) == findLoop(startDir, << >>)

(***************************************************************************)
(* Property lists: JavaScript objects with string keys, in insertion       *)
(* order.                                                                  *)
(***************************************************************************)
HasProp(props, name) == \E i \in 1..Len(props) : props[i].name = name

GetProp(props, name) == props[CHOOSE i \in 1..Len(props) : props[i].name = name].val

SetProp(props, name, val) ==
    IF HasProp(props, name)
    THEN [i \in 1..Len(props) |->
            IF props[i].name = name THEN [name |-> name, val |-> val] ELSE props[i]]
    ELSE Append(props, [name |-> name, val |-> val])

PropNames(props) == {props[i].name : i \in 1..Len(props)}

(***************************************************************************)
(* The properties every object inherits from Object.prototype.  __proto__  *)
(* is an accessor: reading it yields Object.prototype itself, assigning a  *)
(* string to it does nothing.  The others are functions.                   *)
(***************************************************************************)
BuiltinNames == {"constructor", "hasOwnProperty", "isPrototypeOf",
                 "propertyIsEnumerable", "toLocaleString", "toString", "valueOf"}

FunctionReadOnly == {"name", "length"}  \* non-writable properties of a function

(***************************************************************************)
(* The transform (lines 190-200).  An entry is one execution of the inner  *)
(* callback: [key, code, value].  The state of the loop is the object      *)
(* localizations (own), the properties the loop has added to               *)
(* Object.prototype (proto), and whether an assignment threw.              *)
(***************************************************************************)
RecordEntries(rec) ==
    [j \in 1..Len(rec.localizations) |->
        [key |-> rec.key, code |-> rec.localizations[j].code,
         value |-> rec.localizations[j].value]]

RECURSIVE Flatten(_)
Flatten(keys) ==
    IF keys = << >> THEN << >> ELSE RecordEntries(Head(keys)) \o Flatten(Tail(keys))

EmptyObject == [own |-> << >>, proto |-> << >>, threw |-> FALSE]

\* What localizations[code] evaluates to (line 194): an own property, else
\* what the prototype chain gives.
Lookup(obj, code) ==
    IF HasProp(obj.own, code) THEN "own"
    ELSE IF code = "__proto__" THEN "objectPrototype"
    ELSE IF HasProp(obj.proto, code) THEN "primitive"
    ELSE IF code \in BuiltinNames THEN "function"
    ELSE "undefined"

\* localizations[code][key] = value (line 198), by what localizations[code] is.
Assign(obj, target, e) ==
    CASE target = "own" ->
            IF e.key = "__proto__" THEN obj
            ELSE [obj EXCEPT !.own =
                     SetProp(@, e.code, SetProp(GetProp(@, e.code), e.key, e.value))]
      [] target = "objectPrototype" ->
            IF e.key = "__proto__" THEN obj
            ELSE [obj EXCEPT !.proto = SetProp(@, e.key, e.value)]
      [] target = "function" ->
            IF e.key \in FunctionReadOnly THEN [obj EXCEPT !.threw = TRUE] ELSE obj
      [] target = "primitive" ->
            IF e.key = "__proto__" THEN obj ELSE [obj EXCEPT !.threw = TRUE]

\* The body of the inner callback (lines 194-198).
TransformEntry(obj, e) ==
    LET found == Lookup(obj, e.code)
        obj1 == IF found = "undefined"
                THEN [obj EXCEPT !.own = SetProp(@, e.code, << >>)]
                ELSE obj
    IN  Assign(obj1, IF found = "undefined" THEN "own" ELSE found, e)

RECURSIVE TransformLoop(_, _)
TransformLoop(obj, entries) ==
    IF entries = << >> \/ obj.threw THEN obj
    ELSE TransformLoop(TransformEntry(obj, Head(entries)), Tail(entries))

transform(keys) == TransformLoop(EmptyObject, Flatten(keys))

(***************************************************************************)
(* JSON.stringify(localizations) (line 202): the own properties in         *)
(* insertion order, as a text.                                             *)
(***************************************************************************)
RECURSIVE StringifyInner(_)
StringifyInner(props) ==
    IF props = << >> THEN << >>
    ELSE << Head(props).name, ":", Head(props).val >>
         \o (IF Len(props) > 1 THEN << "," >> ELSE << >>)
         \o StringifyInner(Tail(props))

RECURSIVE StringifyOuter(_)
StringifyOuter(props) ==
    IF props = << >> THEN << >>
    ELSE << Head(props).name, ":", "{" >> \o StringifyInner(Head(props).val) \o << "}" >>
         \o (IF Len(props) > 1 THEN << "," >> ELSE << >>)
         \o StringifyOuter(Tail(props))

stringify(props) == << "{" >> \o StringifyOuter(props) \o << "}" >>

\* The locale-major map as a value: code -> key -> value.
OutputMap(obj) ==
    [code \in PropNames(obj.own) |->
        LET inner == GetProp(obj.own, code)
        IN  [key \in PropNames(inner) |-> GetProp(inner, key)]]

(***************************************************************************)
(* The config file (lines 137-139 and 167).                                *)
(***************************************************************************)
\* A parsed config: null (the file holds the JSON text null) or an object, whose
\* absent fields read as undefined.
NoConfig == [null |-> FALSE, id |-> Undefined, secret |-> Undefined, path |-> Undefined]
NullConfig == [null |-> TRUE, id |-> Undefined, secret |-> Undefined, path |-> Undefined]

stringifyConfig(c) ==
    << "{", "id", ":", c.id, ",", "secret", ":", c.secret, ",", "path", ":", c.path, "}" >>

EmptyObjectText == << "{", "}" >>
NullText == << "null" >>
GarbageText == << "not json" >>

\* JSON.parse of a config text: [ok, value]; ok is FALSE when it throws.
parseConfig(text) ==
    IF text = EmptyObjectText THEN [ok |-> TRUE, value |-> NoConfig]
    ELSE IF text = NullText THEN [ok |-> TRUE, value |-> NullConfig]
    ELSE IF /\ Len(text) = Len(stringifyConfig(NoConfig))
            /\ text = stringifyConfig([id |-> text[4], secret |-> text[8], path |-> text[12]])
         THEN [ok |-> TRUE,
               value |-> [null |-> FALSE, id |-> text[4], secret |-> text[8],
                          path |-> text[12]]]
         ELSE [ok |-> FALSE, value |-> NoConfig]

\* path.join(dir, rel) for the relative localization path of a config.
pathJoin(dir, rel) ==
    dir \o (IF rel = "/localization.json" THEN << "localization.json" >> ELSE << rel >>)

(***************************************************************************)
(* Thrown values and logError (lines 97-99).  A thrown value has a type    *)
(* and, when it can be converted to a string, the lines of that string.    *)
(***************************************************************************)
NoError == [type |-> "none", lines |-> << >>]
ErrorObject(text) == [type |-> "Error", lines |-> << text >>]
StringValue(lines) == [type |-> "string", lines |-> lines]
UndefinedValue == [type |-> "undefined", lines |-> << >>]

\* message.toString() throws a TypeError for undefined.
CanToString(v) == v.type # "undefined"

\* A report without the 'error: ' prefix.
logErrorNoPrefix(v) ==
    [i \in 1..Len(v.lines) |-> [prefix |-> "       ", text |-> v.lines[i]]]

logErrorLines(v) ==
    [i \in 1..Len(v.lines) |->
        [prefix |-> IF i = 1 THEN "error: " ELSE "       ", text |-> v.lines[i]]]

NoSpinner == [text |-> "", state |-> "none"]
createSpinner(text) == [text |-> text, state |-> "spinning"]

(***************************************************************************)
(* Inputs of the model.                                                    *)
(***************************************************************************)
SeqsUpTo(S, n) == UNION {[1..k -> S] : k \in 0..n}

Dirs == SeqsUpTo(Names, MaxDepth)

Keys == {"hello", "en", "__proto__"}
Codes == {"en", "fr", "__proto__", "constructor"}
Values == {"Hi", "Salut"}

Localizations == [code : Codes, value : Values]
KeyRecords == [key : Keys, localizations : SeqsUpTo(Localizations, MaxLocs)]
KeyLists == SeqsUpTo(KeyRecords, MaxKeys)

Loc(code, value) == [code |-> code, value |-> value]
KeyRecord(key, locs) == [key |-> key, localizations |-> locs]

Hello == << KeyRecord("hello", << Loc("en", "Hi"), Loc("fr", "Salut") >>) >>
HelloEn == << KeyRecord("hello", << Loc("en", "Hi") >>) >>
ProtoFirst == << KeyRecord("en", << Loc("__proto__", "Hi") >>),
                 KeyRecord("hello", << Loc("en", "Hi") >>) >>
SampleKeyLists == {Hello, HelloEn, ProtoFirst}

\* What the API answers: a transport failure or non-2xx status (axios throws), or
\* an envelope {ok, data?, message?}; data is a string that is JSON or not, and
\* that holds a keys list or not.
Data(json, hasKeys, keys) == [json |-> json, hasKeys |-> hasKeys, keys |-> keys]
NoData == Data(FALSE, FALSE, << >>)
Envelope(ok, hasMessage, message, data) ==
    [kind |-> "envelope", ok |-> ok, hasMessage |-> hasMessage,
     message |-> message, data |-> data]
Failure == [kind |-> "failure", ok |-> FALSE, hasMessage |-> FALSE,
            message |-> << >>, data |-> NoData]
NoResponse == Envelope(FALSE, FALSE, << >>, NoData)

Responses ==
    {Failure,
     Envelope(FALSE, TRUE, << "bad secret" >>, NoData),
     Envelope(FALSE, TRUE, << "bad secret", "check the config" >>, NoData),
     Envelope(FALSE, FALSE, << >>, NoData),
     Envelope(TRUE, FALSE, << >>, Data(FALSE, FALSE, << >>)),
     Envelope(TRUE, FALSE, << >>, Data(TRUE, FALSE, << >>))}
    \cup {Envelope(TRUE, FALSE, << >>, Data(TRUE, TRUE, k)) : k \in SampleKeyLists}

Commands == {Undefined, "", "help", "init", "update", "deploy"}

ValidConfig == [null |-> FALSE, id |-> "my-id", secret |-> "s3cret",
                path |-> "/localization.json"]

Readable(text) == [readable |-> TRUE, text |-> text]
Unreadable == [readable |-> FALSE, text |-> << >>]     \* a directory, no permission
Absent == [readable |-> FALSE, text |-> << "absent" >>]  \* no such file (never stored)

ConfigContents == {Readable(stringifyConfig(ValidConfig)), Readable(GarbageText),
                   Readable(EmptyObjectText), Readable(NullText), Unreadable}

LocContents == {Absent, Unreadable,
                Readable(stringify(transform(Hello).own)),
                Readable(stringify(transform(HelloEn).own))}

CliCwd == << "a", "b" >>

RECURSIVE Chain(_)
Chain(dir) == IF dir = dirname(dir) THEN {dir} ELSE {dir} \cup Chain(dirname(dir))

\* A file system with a config file of content cfg in each directory of dirs and,
\* beside each, a localization file of content loc.
FilesFor(dirs, cfg, loc) ==
    LET cfgPaths == {join(d, configFileName) : d \in dirs}
        locPaths == IF loc = Absent THEN {}
                    ELSE {pathJoin(d, ValidConfig.path) : d \in dirs}
    IN  [p \in cfgPaths \cup locPaths |-> IF p \in cfgPaths THEN cfg ELSE loc]

\* A write that ends the text with a line break.
WriteFileNewline(fs, path, text) ==
    [p \in DOMAIN fs \cup {path} |->
        IF p = path THEN Readable(Append(text, "\n")) ELSE fs[p]]

WriteFile(fs, path, text) ==
    [p \in DOMAIN fs \cup {path} |-> IF p = path THEN Readable(text) ELSE fs[p]]

(***************************************************************************)
(* The state at the start of a process.                                    *)
(***************************************************************************)
FreshLocals ==
    /\ pc = "start"
    /\ outcome = "running"
    /\ configPath = Null
    /\ config = NoConfig
    /\ response = NoResponse
    /\ localizations = EmptyObject
    /\ newJson = << >>
    /\ error = NoError
    /\ spinner = NoSpinner
    /\ stdout = << >>
    /\ stderr = << >>
    /\ exitCode = 0
    /\ events = << >>
    /\ walked = << >>

Init ==
    /\ command \in Commands
    /\ cwd = CliCwd
    /\ \E dirs \in SUBSET Chain(CliCwd), cfg \in ConfigContents, loc \in LocContents :
          files = FilesFor(dirs, cfg, loc)
    /\ writable \in BOOLEAN
    /\ remote \in Responses
    /\ FreshLocals
    /\ files0 = files
    /\ run = 1
    /\ prevOk = FALSE
    /\ sameRemote = FALSE

env == << command, cwd, writable, remote, files0, run, prevOk, sameRemote >>

Return == pc' = "done" /\ outcome' = "returned"
Reject == pc' = "done" /\ outcome' = "rejected"
Throw(e) == pc' = "catch" /\ error' = e /\ outcome' = outcome

(***************************************************************************)
(* cli, lines 110-119: no command sets the exit code; no command or help   *)
(* prints the usage and returns.                                           *)
(***************************************************************************)
Falsy(value) == value \in {Undefined, ""}

\* A dispatch that treats help as it treats a missing command.
DispatchHelpFails ==
    /\ pc = "start"
    /\ exitCode' = IF Falsy(command) \/ command = "help" THEN 1 ELSE exitCode
    /\ IF Falsy(command) \/ command = "help"
       THEN stdout' = Append(stdout, "usage") /\ Return
       ELSE stdout' = stdout /\ pc' = "locate" /\ outcome' = outcome
    /\ UNCHANGED << env, files, configPath, config, response, localizations, newJson,
                    error, spinner, stderr, events, walked >>

Dispatch ==
    /\ pc = "start"
    /\ exitCode' = IF Falsy(command) THEN 1 ELSE exitCode
    /\ IF Falsy(command) \/ command = "help"
       THEN stdout' = Append(stdout, "usage") /\ Return
       ELSE stdout' = stdout /\ pc' = "locate" /\ outcome' = outcome
    /\ UNCHANGED << env, files, configPath, config, response, localizations, newJson,
                    error, spinner, stderr, events, walked >>

(***************************************************************************)
(* cli, lines 121-122: locate the config from the working directory.       *)
(***************************************************************************)
Locate ==
    /\ pc = "locate"
    /\ configPath' = findConfig(cwd).path
    /\ walked' = findConfig(cwd).visited
    /\ pc' = "branch"
    /\ UNCHANGED << env, files, outcome, config, response, localizations, newJson,
                    error, spinner, stdout, stderr, exitCode, events >>

(***************************************************************************)
(* cli, lines 124-133: init asks before it shadows a config it found.  A   *)
(* prompt that is aborted rejects, and nothing catches it.                 *)
(***************************************************************************)
InitConfirm ==
    /\ pc = "branch"
    /\ command = "init"
    /\ IF configPath # Null
       THEN /\ stdout' = Append(stdout, "found config")
            /\ \E answer \in {"yes", "no", "abort"} :
                  CASE answer = "yes" -> pc' = "initWrite" /\ outcome' = outcome
                    [] answer = "no" -> Return
                    [] answer = "abort" -> Reject
       ELSE stdout' = stdout /\ pc' = "initWrite" /\ outcome' = outcome
    /\ UNCHANGED << env, files, configPath, config, response, localizations, newJson,
                    error, spinner, stderr, exitCode, events, walked >>

(***************************************************************************)
(* cli, lines 135-147: collect the options, write the config file.         *)
(***************************************************************************)
InitWrite ==
    /\ pc = "initWrite"
    /\ \E options \in {"given", "answered", "aborted"} :
          IF options = "aborted" \/ ~writable
          THEN Reject /\ UNCHANGED << files, config, stdout >>
          ELSE /\ config' = ValidConfig
               /\ files' = WriteFile(files, join(cwd, configFileName),
                                     stringifyConfig(ValidConfig))
               /\ stdout' = Append(stdout, "saved")
               /\ Return
    /\ UNCHANGED << env, configPath, response, localizations, newJson, error, spinner,
                    stderr, exitCode, events, walked >>

(***************************************************************************)
(* cli, lines 148-162: update locates the config again; without one it     *)
(* reports and returns.                                                    *)
(***************************************************************************)
NoConfigMessage ==
    StringValue(<< "unable to find apploc.config.json in the working directory or any of its parents",
                   "initialize your project by executing apploc init" >>)

UpdateLocate ==
    /\ pc = "branch"
    /\ command = "update"
    /\ configPath' = findConfig(cwd).path
    /\ IF configPath' = Null
       THEN /\ stderr' = stderr \o logErrorLines(NoConfigMessage)
            /\ exitCode' = 1
            /\ Return
       ELSE /\ pc' = "readConfig"
            /\ UNCHANGED << stderr, exitCode, outcome >>
    /\ UNCHANGED << env, files, config, response, localizations, newJson, error,
                    spinner, stdout, events, walked >>

(***************************************************************************)
(* cli, lines 226-230: any other command.                                  *)
(***************************************************************************)
UnknownCommand ==
    /\ pc = "branch"
    /\ command \notin {"init", "update"}
    /\ stderr' = stderr \o logErrorLines(StringValue(<< "unknown command" >>))
    /\ exitCode' = 1
    /\ Return
    /\ UNCHANGED << env, files, configPath, config, response, localizations, newJson,
                    error, spinner, stdout, events, walked >>

(***************************************************************************)
(* cli, lines 167-169: read and parse the config, start the first spinner. *)
(***************************************************************************)
ReadConfig ==
    /\ pc = "readConfig"
    /\ events' = Append(events, "readConfig")
    /\ LET file == files[configPath]
           parsed == parseConfig(file.text)
       IN  IF ~file.readable
           THEN Throw(ErrorObject("Error: cannot read the config")) /\ UNCHANGED << config, spinner >>
           ELSE IF ~parsed.ok
           THEN Throw(ErrorObject("SyntaxError")) /\ UNCHANGED << config, spinner >>
           ELSE /\ config' = parsed.value
                /\ spinner' = createSpinner("Fetching updates...")
                /\ pc' = "fetch"
                /\ UNCHANGED << error, outcome >>
    /\ UNCHANGED << env, files, configPath, response, localizations, newJson, stdout,
                    stderr, exitCode, walked >>

(***************************************************************************)
(* cli, lines 171-180: the GET.  Reading config.id throws when the config  *)
(* is null, before the request is made; axios throws on a transport        *)
(* failure and on a status outside 2xx.                                    *)
(***************************************************************************)
\* A fetch that tries a second time when the first request fails.
FetchWithRetry ==
    /\ pc = "fetch"
    /\ IF config.null
       THEN Throw(ErrorObject("TypeError")) /\ UNCHANGED << response, events >>
       ELSE IF remote.kind = "failure"
       THEN /\ events' = events \o << "GET", "GET" >>
            /\ Throw(ErrorObject("AxiosError")) /\ UNCHANGED response
       ELSE /\ events' = Append(events, "GET")
            /\ response' = remote /\ pc' = "envelope" /\ UNCHANGED << error, outcome >>
    /\ UNCHANGED << env, files, configPath, config, localizations, newJson, spinner,
                    stdout, stderr, exitCode, walked >>

Fetch ==
    /\ pc = "fetch"
    /\ IF config.null
       THEN Throw(ErrorObject("TypeError")) /\ UNCHANGED << response, events >>
       ELSE IF remote.kind = "failure"
       THEN /\ events' = Append(events, "GET")
            /\ Throw(ErrorObject("AxiosError")) /\ UNCHANGED response
       ELSE /\ events' = Append(events, "GET")
            /\ response' = remote /\ pc' = "envelope" /\ UNCHANGED << error, outcome >>
    /\ UNCHANGED << env, files, configPath, config, localizations, newJson, spinner,
                    stdout, stderr, exitCode, walked >>

(***************************************************************************)
(* cli, lines 182-188: an envelope that is not ok throws its message.      *)
(***************************************************************************)
\* A rejection that drops the server's message.
ThrownGeneric(envelope) == ErrorObject("Error: request rejected")

Thrown(envelope) ==
    IF envelope.hasMessage THEN StringValue(envelope.message) ELSE UndefinedValue

CheckEnvelope ==
    /\ pc = "envelope"
    /\ IF ~response.ok
       THEN Throw(Thrown(response)) /\ UNCHANGED << spinner, events >>
       ELSE /\ spinner' = createSpinner("Creating optimized localizations...")
            /\ events' = Append(events, "ok")
            /\ pc' = "transform"
            /\ UNCHANGED << error, outcome >>
    /\ UNCHANGED << env, files, configPath, config, response, localizations, newJson,
                    stdout, stderr, exitCode, walked >>

(***************************************************************************)
(* cli, lines 190-204: parse the data, transform, serialize.               *)
(***************************************************************************)
Transform ==
    /\ pc = "transform"
    /\ LET data == response.data
           result == transform(data.keys)
       IN  IF ~data.json
           THEN Throw(ErrorObject("SyntaxError")) /\ UNCHANGED << localizations, newJson, spinner, events >>
           ELSE IF ~data.hasKeys
           THEN Throw(ErrorObject("TypeError")) /\ UNCHANGED << localizations, newJson, spinner, events >>
           ELSE IF result.threw
           THEN Throw(ErrorObject("TypeError")) /\ localizations' = result
                /\ UNCHANGED << newJson, spinner, events >>
           ELSE /\ localizations' = result
                /\ newJson' = stringify(result.own)
                /\ spinner' = [spinner EXCEPT !.state = "success"]
                /\ events' = Append(events, "transformed")
                /\ pc' = "compare"
                /\ UNCHANGED << error, outcome >>
    /\ UNCHANGED << env, files, configPath, config, response, stdout, stderr, exitCode,
                    walked >>

(***************************************************************************)
(* cli, lines 206-208 and 214-216: the localization path, then the         *)
(* condition of the if: the file is missing, or its content is not the     *)
(* new text.  path.join throws when config.path is not a string.           *)
(***************************************************************************)
\* A condition that looks at the existence of the file only.
NeedsWriteWhenMissing(fs, path, text) == ~(path \in DOMAIN fs)

NeedsWrite(fs, path, text) == ~(path \in DOMAIN fs) \/ fs[path].text # text

Compare ==
    /\ pc = "compare"
    /\ IF config.path = Undefined
       THEN Throw(ErrorObject("TypeError")) /\ UNCHANGED << events, stdout >>
       ELSE LET localizationPath == pathJoin(dirname(configPath), config.path)
            IN  IF ~existsSync(localizationPath)
                THEN /\ events' = Append(events, "existsLoc")
                     /\ pc' = "write"
                     /\ UNCHANGED << error, outcome, stdout >>
                ELSE IF ~files[localizationPath].readable
                THEN /\ events' = events \o << "existsLoc", "readLoc" >>
                     /\ Throw(ErrorObject("Error: cannot read the localization file"))
                     /\ UNCHANGED stdout
                ELSE IF NeedsWrite(files, localizationPath, newJson)
                THEN /\ events' = events \o << "existsLoc", "readLoc" >>
                     /\ pc' = "write"
                     /\ UNCHANGED << error, outcome, stdout >>
                ELSE /\ events' = events \o << "existsLoc", "readLoc" >>
                     /\ stdout' = Append(stdout, "Nothing has changed since the last version")
                     /\ Return
                     /\ UNCHANGED error
    /\ UNCHANGED << env, files, configPath, config, response, localizations, newJson,
                    spinner, stderr, exitCode, walked >>

(***************************************************************************)
(* cli, lines 209-213: write the new text.                                 *)
(***************************************************************************)
Write ==
    /\ pc = "write"
    /\ events' = Append(events, "writeLoc")
    /\ LET localizationPath == pathJoin(dirname(configPath), config.path)
       IN  IF writable
           THEN /\ files' = WriteFile(files, localizationPath, newJson)
                /\ spinner' = [createSpinner("Writing...") EXCEPT !.state = "success"]
                /\ Return
                /\ UNCHANGED error
           ELSE /\ spinner' = createSpinner("Writing...")
                /\ Throw(ErrorObject("Error: cannot write the localization file"))
                /\ UNCHANGED files
    /\ UNCHANGED << env, configPath, config, response, localizations, newJson, stdout,
                    stderr, exitCode, walked >>

(***************************************************************************)
(* cli, lines 217-225: the catch.  logError converts the caught value to   *)
(* a string before anything is printed; when that throws, the exception    *)
(* leaves the catch block and cli rejects.                                 *)
(***************************************************************************)
Catch ==
    /\ pc = "catch"
    /\ spinner' = IF spinner = NoSpinner THEN spinner ELSE [spinner EXCEPT !.state = "error"]
    /\ IF CanToString(error)
       THEN /\ stderr' = stderr \o logErrorLines(error)
            /\ exitCode' = 1
            /\ Return
       ELSE /\ Reject
            /\ UNCHANGED << stderr, exitCode >>
    /\ UNCHANGED << env, files, configPath, config, response, localizations, newJson,
                    error, stdout, events, walked >>

(***************************************************************************)
(* The tool is run again, in a new process, on the file system the last    *)
(* run left.                                                               *)
(***************************************************************************)
Rerun ==
    /\ pc = "done"
    /\ command = "update"
    /\ run < MaxRuns
    /\ run' = run + 1
    /\ remote' \in Responses
    /\ sameRemote' = (remote' = remote)
    /\ prevOk' = (outcome = "returned" /\ exitCode = 0)
    /\ files0' = files
    /\ pc' = "start"
    /\ outcome' = "running"
    /\ configPath' = Null
    /\ config' = NoConfig
    /\ response' = NoResponse
    /\ localizations' = EmptyObject
    /\ newJson' = << >>
    /\ error' = NoError
    /\ spinner' = NoSpinner
    /\ stdout' = << >>
    /\ stderr' = << >>
    /\ exitCode' = 0
    /\ events' = << >>
    /\ walked' = << >>
    /\ UNCHANGED << command, cwd, writable, files >>

Next ==
    \/ Dispatch
    \/ Locate
    \/ InitConfirm
    \/ InitWrite
    \/ UpdateLocate
    \/ UnknownCommand
    \/ ReadConfig
    \/ Fetch
    \/ CheckEnvelope
    \/ Transform
    \/ Compare
    \/ Write
    \/ Catch
    \/ Rerun

Spec == Init /\ [][Next]_vars

(***************************************************************************)
(* findConfig on every directory tree of depth MaxDepth: cli at line 121,  *)
(* started in any directory, config files in any set of directories.       *)
(***************************************************************************)
InitFind ==
    /\ command = "update"
    /\ cwd \in Dirs
    /\ \E dirs \in SUBSET Dirs :
          files = FilesFor(dirs, Readable(stringifyConfig(ValidConfig)), Absent)
    /\ writable = TRUE
    /\ remote = Failure
    /\ pc = "locate"
    /\ outcome = "running"
    /\ configPath = Null
    /\ config = NoConfig
    /\ response = NoResponse
    /\ localizations = EmptyObject
    /\ newJson = << >>
    /\ error = NoError
    /\ spinner = NoSpinner
    /\ stdout = << >>
    /\ stderr = << >>
    /\ exitCode = 0
    /\ events = << >>
    /\ walked = << >>
    /\ files0 = files
    /\ run = 1
    /\ prevOk = FALSE
    /\ sameRemote = FALSE

NextFind == Locate

SpecFind == InitFind /\ [][NextFind]_vars

(***************************************************************************)
(* The transform on every keys list within the bounds: cli at line 190,    *)
(* the envelope received and accepted.                                     *)
(***************************************************************************)
InitTransform ==
    /\ command = "update"
    /\ cwd = CliCwd
    /\ files = FilesFor({CliCwd}, Readable(stringifyConfig(ValidConfig)), Absent)
    /\ writable = TRUE
    /\ \E keys \in KeyLists : remote = Envelope(TRUE, FALSE, << >>, Data(TRUE, TRUE, keys))
    /\ pc = "transform"
    /\ outcome = "running"
    /\ configPath = join(CliCwd, configFileName)
    /\ config = ValidConfig
    /\ response = remote
    /\ localizations = EmptyObject
    /\ newJson = << >>
    /\ error = NoError
    /\ spinner = createSpinner("Creating optimized localizations...")
    /\ stdout = << >>
    /\ stderr = << >>
    /\ exitCode = 0
    /\ events = << "readConfig", "GET", "ok" >>
    /\ walked = << CliCwd >>
    /\ files0 = files
    /\ run = 1
    /\ prevOk = FALSE
    /\ sameRemote = FALSE

NextTransform == Transform

SpecTransform == InitTransform /\ [][NextTransform]_vars

(***************************************************************************)
(* Vocabulary of the properties.                                           *)
(***************************************************************************)
Range(seq) == {seq[i] : i \in 1..Len(seq)}

Count(seq, x) == Cardinality({i \in 1..Len(seq) : seq[i] = x})

\* The directories from dir up to the root: the prefixes of dir.
Ancestors(dir) == {SubSeq(dir, 1, n) : n \in 0..Len(dir)}

\* The directories on the chain of dir that held a config when the run started.
Holders(dir) == {d \in Ancestors(dir) : join(d, configFileName) \in DOMAIN files0}

Finished == pc = "done"

Updating == command = "update"

NothingChanged == "Nothing has changed since the last version" \in Range(stdout)

WriteIssued == "writeLoc" \in Range(events)

LocalizationPath == pathJoin(dirname(configPath), config.path)

\* C1: findConfig(startDir) returns the config path in the nearest directory of
\* the chain startDir, parent, ..., root that holds apploc.config.json, and null
\* exactly when no directory of the chain, the root included, holds one; the walk
\* tests the chain in order and ends at the holder or at the root.
C1_NearestConfig ==
    pc = "branch" =>
        /\ (configPath = Null) <=> (Holders(cwd) = {})
        /\ Holders(cwd) # {} =>
              \E d \in Holders(cwd) :
                 /\ configPath = join(d, configFileName)
                 /\ \A other \in Holders(cwd) : Len(other) <= Len(d)
        /\ \A i \in 1..Len(walked) : walked[i] = SubSeq(cwd, 1, Len(cwd) - i + 1)
        /\ Len(walked) >= 1
        /\ IF configPath = Null
           THEN walked[Len(walked)] = << >> /\ dirname(<< >>) = << >>
           ELSE join(walked[Len(walked)], configFileName) = configPath

\* A config two levels up is found although the root holds one as well.
C1_Witness ==
    /\ pc = "branch"
    /\ Len(cwd) = 2
    /\ configPath = join(dirname(cwd), configFileName)
    /\ Cardinality(Holders(cwd)) = 2

\* C2: in an update that reaches the compare/write step, the write is issued if
\* and only if the localization file does not exist or its content differs from
\* the new text; when the file exists with the new text as content nothing is
\* written and 'Nothing has changed' is reported.  (An entry that exists and
\* cannot be read has no content to compare: nothing is written or reported.)
C2_WriteIffChanged ==
    (Finished /\ Updating /\ "existsLoc" \in Range(events)) =>
        LET absent == LocalizationPath \notin DOMAIN files0
            readable == ~absent /\ files0[LocalizationPath].readable
            same == readable /\ files0[LocalizationPath].text = newJson
        IN  /\ WriteIssued <=> (absent \/ (readable /\ ~same))
            /\ NothingChanged <=> same
            /\ NothingChanged => (~WriteIssued /\ files = files0)
            /\ (WriteIssued /\ error = NoError) =>
                  files = WriteFile(files0, LocalizationPath, newJson)

\* A file with another content has been rewritten with the new text.
C2_Witness ==
    /\ Finished /\ Updating /\ WriteIssued
    /\ LocalizationPath \in DOMAIN files0
    /\ files0[LocalizationPath].text # newJson
    /\ files[LocalizationPath].text = newJson

\* The locale-major map the claims describe for a keys list: the codes that
\* occur, under each code the keys that occur with it, and for each such pair
\* the value of its last occurrence.
Occurrences(keys, code, key) ==
    {pos \in (1..Len(keys)) \X (1..MaxLocs + 1) :
        /\ keys[pos[1]].key = key
        /\ pos[2] <= Len(keys[pos[1]].localizations)
        /\ keys[pos[1]].localizations[pos[2]].code = code}

Later(p, q) == p[1] > q[1] \/ (p[1] = q[1] /\ p[2] >= q[2])

ExpectedMap(keys) ==
    LET codes == {c \in Codes : \E k \in Keys : Occurrences(keys, c, k) # {}}
    IN  [c \in codes |->
            [k \in {k \in Keys : Occurrences(keys, c, k) # {}} |->
                LET last == CHOOSE p \in Occurrences(keys, c, k) :
                                \A q \in Occurrences(keys, c, k) : Later(p, q)
                IN  keys[last[1]].localizations[last[2]].value]]

\* C3: for every parsed input the transform produces the locale-major map whose
\* codes are exactly the codes that occur, with output[code][key] defined exactly
\* for the pairs that occur and equal to the value of the pair's last occurrence.
C3_TransformIsExpectedMap ==
    (pc # "transform" /\ response.data.hasKeys) =>
        /\ ~localizations.threw
        /\ OutputMap(localizations) = ExpectedMap(response.data.keys)

\* C4: an envelope with ok false and a message string ends the update with exit
\* code 1, the message is what is printed as the error, and the transform and
\* the compare/write steps are not reached.
C4_RemoteMessageReported ==
    (Updating /\ "GET" \in Range(events) /\ remote.kind = "envelope"
             /\ ~remote.ok /\ remote.hasMessage) =>
        /\ pc \in {"envelope", "catch", "done"}
        /\ Range(events) = {"readConfig", "GET"}
        /\ files = files0
        /\ Finished =>
              /\ outcome = "returned"
              /\ exitCode = 1
              /\ Len(stderr) = Len(remote.message)
              /\ \A i \in 1..Len(stderr) : stderr[i].text = remote.message[i]
              /\ stderr[1].prefix = "error: "

C4_Witness ==
    /\ Finished /\ Updating
    /\ remote.kind = "envelope" /\ ~remote.ok
    /\ remote.message = << "bad secret" >>
    /\ Len(stderr) = 1 /\ stderr[1].text = "bad secret"
    /\ exitCode = 1

\* C5: update with no config in any directory from the working directory up to
\* the root ends with exit code 1 and an error that says to run 'apploc init',
\* issues no request and neither reads nor writes a localization file.
C5_MissingConfig ==
    (Updating /\ Holders(cwd) = {}) =>
        /\ events = << >>
        /\ files = files0
        /\ pc \in {"start", "locate", "branch", "done"}
        /\ Finished =>
              /\ outcome = "returned"
              /\ exitCode = 1
              /\ stderr # << >>
              /\ stderr[1].prefix = "error: "
              /\ \E i \in 1..Len(stderr) :
                    stderr[i].text = "initialize your project by executing apploc init"

C5_Witness ==
    /\ Finished /\ Updating /\ Holders(cwd) = {}
    /\ exitCode = 1 /\ stderr # << >>

\* C6: for every invocation that returns, the exit code is 1 exactly when no
\* command was given (the usage is still printed), the command is unknown,
\* update found no config, or an error was raised during update; otherwise it
\* is never set and stays 0.
C6_ExitCode ==
    (Finished /\ outcome = "returned") =>
        /\ exitCode \in {0, 1}
        /\ exitCode = 1 <=>
              \/ Falsy(command)
              \/ command \notin {"help", "init", "update"}
              \/ Updating /\ Holders(cwd) = {}
              \/ Updating /\ error # NoError
        /\ Falsy(command) => "usage" \in Range(stdout)

C6_Witness ==
    /\ Finished /\ outcome = "returned"
    /\ command = Undefined
    /\ exitCode = 1
    /\ stdout = << "usage" >>

\* C7: every error raised on the update path after the config is located is
\* caught, printed to standard error with the 'error: ' prefix and gives exit
\* code 1; cli never rejects and nothing is retried.
C7_EveryErrorReported ==
    /\ outcome # "rejected" \/ ~Updating
    /\ (Finished /\ Updating /\ error # NoError) =>
          /\ outcome = "returned"
          /\ exitCode = 1
          /\ stderr # << >>
          /\ stderr[1].prefix = "error: "
          /\ Count(events, "GET") <= 1

\* Every order of a keys list: its records permuted, and the localizations
\* permuted inside each record.
PermsOf(seq) ==
    {[i \in 1..Len(seq) |-> seq[f[i]]] : f \in Permutations(1..Len(seq))}

OrdersOf(keys) ==
    LET n == Len(keys)
        pool == UNION {PermsOf(keys[i].localizations) : i \in 1..n}
        picks == {pick \in Permutations(1..n) \X [1..n -> pool] :
                     \A i \in 1..n :
                        pick[2][i] \in PermsOf(keys[pick[1][i]].localizations)}
    IN  {[i \in 1..n |-> KeyRecord(keys[pick[1][i]].key, pick[2][i])] : pick \in picks}

SameResult(a, b) ==
    /\ a.threw = b.threw
    /\ ~a.threw => OutputMap(a) = OutputMap(b)

\* C8: the transform is order-independent as a value: every permutation of the
\* key records and of the localizations inside each record gives the same map.
C8_OrderIndependent ==
    (pc # "transform" /\ response.data.hasKeys) =>
        \A other \in OrdersOf(response.data.keys) :
            SameResult(transform(other), localizations)

\* C9: after an update that completed, a second update with the same config and
\* the same remote response writes nothing, leaves the localization file as it
\* is, reports that nothing has changed and exits 0.
C9_Idempotent ==
    (run > 1 /\ prevOk /\ sameRemote) =>
        /\ files = files0
        /\ pc \notin {"write", "catch"}
        /\ ~WriteIssued
        /\ Finished =>
              /\ outcome = "returned"
              /\ exitCode = 0
              /\ NothingChanged

C9_Witness ==
    /\ Finished /\ run = 2 /\ prevOk /\ sameRemote
    /\ NothingChanged
    /\ exitCode = 0
    /\ files[LocalizationPath].text = stringify(transform(Hello).own)

\* The I/O of one update run, in the order of the code.
FullTraces ==
    {<< "readConfig", "GET", "ok", "transformed", "existsLoc", "readLoc", "writeLoc" >>,
     << "readConfig", "GET", "ok", "transformed", "existsLoc", "writeLoc" >>}

IsPrefix(s, t) == Len(s) <= Len(t) /\ SubSeq(t, 1, Len(s)) = s

\* The config of this run could be read and parsed, and is not null.
ConfigUsable ==
    /\ Holders(cwd) # {}
    /\ configPath \in DOMAIN files0
    /\ files0[configPath].readable
    /\ files0[configPath].text \notin {GarbageText, NullText}

StepsInOrder ==
    Updating =>
        /\ \E t \in FullTraces : IsPrefix(events, t)
        /\ "ok" \in Range(events) => response.ok
        /\ "transformed" \in Range(events) => newJson = stringify(localizations.own)
        /\ ~WriteIssued => files = files0

\* C10 as stated: the steps occur in the order locate, read config, fetch,
\* transform, compare/write; exactly one GET is issued per run, after the config
\* has been read; the localization file is read or written only after the GET
\* returned an ok envelope and the transform completed; a failure before the
\* write leaves the localization file as it was.
C10_ExactlyOneGetPerRun ==
    /\ StepsInOrder
    /\ (Updating /\ Finished) => Count(events, "GET") = 1

\* C10 amended: at most one GET is issued per run, exactly one in a run whose
\* config was found, read and parsed to something other than null, and none in
\* any other run; the rest as stated.
C10_StepsInOrder ==
    /\ StepsInOrder
    /\ (Updating /\ Finished) =>
          Count(events, "GET") = (IF ConfigUsable THEN 1 ELSE 0)

\* A run that failed in the transform, after its one GET, with the file intact.
C10_Witness ==
    /\ Updating /\ Finished
    /\ events = << "readConfig", "GET", "ok" >>
    /\ localizations.threw
    /\ files = files0
    /\ exitCode = 1

====
